---- MODULE Spec2Model ----
(***************************************************************************)
(* Model of the client-side networking layer of the real-estate listings   *)
(* front end: the error normalizer (lib/utils/errorHandler.ts), the retry  *)
(* policy (lib/utils/retry.ts) and the API client                          *)
(* (lib/api/propertyService.ts).                                           *)
(***************************************************************************)
EXTENDS Integers, Sequences, FiniteSets, TLC

(***************************************************************************)
(* JavaScript values.  A value is a record tagged by t; objects carry the  *)
(* constructor they were made with (cls) and their own properties (props). *)
(***************************************************************************)
Undefined == [t |-> "undefined"]

Null == [t |-> "null"]

Str(s) == [t |-> "string", s |-> s]

Num(n) == [t |-> "number", n |-> n]

Bool(b) == [t |-> "boolean", b |-> b]

Arr(items) == [t |-> "array", items |-> items]

Obj(cls, props) == [t |-> "object", cls |-> cls, props |-> props]

\* typeof v
TypeOf(v) ==
  IF v.t \in {"null", "array", "object"} THEN "object" ELSE v.t

\* v instanceof Error / v instanceof TypeError
InstanceOf(v, cls) ==
  /\ v.t = "object"
  /\ \/ v.cls = cls
     \/ cls = "Error" /\ v.cls \in {"TypeError", "SyntaxError"}

\* k in v, for an object v: own properties, and the message every Error
\* inherits from Error.prototype
HasKey(v, k) ==
  /\ v.t = "object"
  /\ \/ k \in DOMAIN v.props
     \/ k = "message" /\ InstanceOf(v, "Error")

\* v.k (property read; undefined when the property is missing)
Get(v, k) ==
  IF v.t = "object" /\ k \in DOMAIN v.props THEN v.props[k]
  ELSE IF k = "message" /\ InstanceOf(v, "Error") THEN Str("")
  ELSE Undefined

\* a || b
OrElse(a, b) ==
  IF a \in {Undefined, Null, Str(""), Num(0), Bool(FALSE)} THEN b ELSE a

(***************************************************************************)
(* Strings of the model, and the substring relation String.includes needs. *)
(***************************************************************************)
FailedToFetch == "Failed to fetch"

FetchSubstring == "fetch"

\* s.includes(sub), over the strings of the model
Includes(s, sub) ==
  \/ s = sub
  \/ sub = FetchSubstring /\ s = FailedToFetch

(***************************************************************************)
(* lib/utils/errorHandler.ts                                               *)
(***************************************************************************)
NetworkMessage == "Network error. Please check your connection."

UnexpectedMessage == "An unexpected error occurred"

\* The outcome of a call: a returned value, or a thrown one.
Returned(v) == [threw |-> FALSE, value |-> v]

Thrown(v) == [threw |-> TRUE, value |-> v]

isApiError(error) ==
  /\ TypeOf(error) = "object"
  /\ error # Null
  /\ HasKey(error, "message")
  /\ HasKey(error, "statusCode")

\* mutant of parseError: the Error rule is tried before the network rule
parseErrorErrorFirst(error) ==
  IF isApiError(error) THEN error
  ELSE IF InstanceOf(error, "Error")
    THEN Obj("Object", [message |-> Get(error, "message"), statusCode |-> Num(500)])
  ELSE IF InstanceOf(error, "TypeError")
          /\ Includes(Get(error, "message").s, FetchSubstring)
    THEN Obj("Object", [message |-> Str(NetworkMessage), statusCode |-> Num(0)])
  ELSE Obj("Object", [message |-> Str(UnexpectedMessage), statusCode |-> Num(500)])

\* The message of an Error is a string: the Error constructors convert their
\* argument to one, and Error.prototype.message is "".
parseError(error) ==
  IF isApiError(error) THEN error
  ELSE IF InstanceOf(error, "TypeError")
          /\ Includes(Get(error, "message").s, FetchSubstring)
    THEN Obj("Object", [message |-> Str(NetworkMessage), statusCode |-> Num(0)])
  ELSE IF InstanceOf(error, "Error")
    THEN Obj("Object", [message |-> Get(error, "message"), statusCode |-> Num(500)])
  ELSE Obj("Object", [message |-> Str(UnexpectedMessage), statusCode |-> Num(500)])

\* logError only writes to the console: handleError returns parsedError
handleError(error) ==
  LET parsedError == parseError(error) IN parsedError

(***************************************************************************)
(* lib/utils/retry.ts                                                      *)
(***************************************************************************)
DEFAULT_RETRY_OPTIONS ==
  [maxAttempts |-> 3,
   delayMs |-> 1000,
   backoffMultiplier |-> 2,
   retryableStatusCodes |-> {408, 429, 500, 502, 503, 504}]

\* An options object gives each key as a set: empty when the key is left
\* out, else holding its value.  { ...DEFAULT_RETRY_OPTIONS, ...options }
MergeOptions(options) ==
  [k \in DOMAIN DEFAULT_RETRY_OPTIONS |->
     IF options[k] = {} THEN DEFAULT_RETRY_OPTIONS[k]
     ELSE CHOOSE x \in options[k] : TRUE]

NoOptions ==
  [maxAttempts |-> {}, delayMs |-> {}, backoffMultiplier |-> {},
   retryableStatusCodes |-> {}]

\* mutant of isRetryable: every error is retried
isRetryableAlways(error, retryableStatusCodes) == TRUE

isRetryable(error, retryableStatusCodes) ==
  /\ Get(error, "statusCode").t = "number"
  /\ Get(error, "statusCode").n \in retryableStatusCodes

(***************************************************************************)
(* lib/api/propertyService.ts: pure parts                                  *)
(***************************************************************************)
EmptyObject == Obj("Object", [k \in {} |-> Undefined])

\* response.ok: the status is in the range 200-299
ResponseOk(status) == status >= 200 /\ status <= 299

\* response.json(): the parsed body, or a thrown SyntaxError
InvalidJson == Obj("SyntaxError", [message |-> Str("Unexpected end of JSON input")])

\* reading a property of null throws
CannotReadNull == Obj("TypeError", [message |-> Str("Cannot read properties of null")])

\* the object thrown for a non-success response (fallback: the generic message)
ErrorFromResponse(response, fallback, keepErrors) ==
  LET errorData == IF response.body.parses THEN response.body.json ELSE EmptyObject
      message == OrElse(OrElse(Get(errorData, "message"), Str(response.statusText)),
                        Str(fallback))
  IN IF errorData = Null THEN CannotReadNull
     ELSE IF keepErrors
       THEN Obj("Object", [message |-> message,
                           statusCode |-> Num(response.status),
                           errors |-> Get(errorData, "errors")])
       ELSE Obj("Object", [message |-> message,
                           statusCode |-> Num(response.status)])

\* what throw handleError(error, ...) throws from the catch block
Rethrow(error) == Thrown(handleError(error))

\* request(endpoint, options), given what fetch settled with
request(fetched) ==
  IF fetched.rejected THEN Rethrow(fetched.reason)
  ELSE IF ~ResponseOk(fetched.status)
    THEN Rethrow(ErrorFromResponse(fetched, "Request failed", TRUE))
  ELSE IF fetched.status = 204 THEN Returned(EmptyObject)
  ELSE IF fetched.body.parses THEN Returned(fetched.body.json)
  ELSE Rethrow(InvalidJson)

\* the body of uploadImage, given what fetch settled with
uploadImageRequest(fetched) ==
  IF fetched.rejected THEN Rethrow(fetched.reason)
  ELSE IF ~ResponseOk(fetched.status)
    THEN Rethrow(ErrorFromResponse(fetched, "Upload failed", FALSE))
  ELSE IF fetched.body.parses THEN Returned(fetched.body.json)
  ELSE Rethrow(InvalidJson)

\* mutant of ReadOperations: every method goes through retryableRequest
ReadOperationsAndWrites ==
  {"getProperties", "getPropertyById", "getCategories",
   "createProperty", "updateProperty", "deleteProperty", "uploadImage"}

\* the methods that call retryableRequest
ReadOperations == {"getProperties", "getPropertyById", "getCategories"}

WriteOperations == {"createProperty", "updateProperty", "deleteProperty"}

ApiOperations == ReadOperations \cup WriteOperations \cup {"uploadImage"}

\* the options retryableRequest passes to withRetry
RetryableRequestOptions ==
  [maxAttempts |-> {3}, delayMs |-> {1000}, backoffMultiplier |-> {},
   retryableStatusCodes |-> {}]

\* a method that hands on what request resolved with, wrapper included
UnwrapNothing(op, response) == Returned(response)

\* what a method does with the value request resolved with
Unwrap(op, response) ==
  IF op \in {"getProperties", "getCategories"}
    THEN IF response.t = "array" THEN Returned(response)
         ELSE IF response \in {Null, Undefined} THEN Thrown(CannotReadNull)
         ELSE Returned(Get(response, "data"))
  ELSE IF op \in {"getPropertyById", "createProperty", "updateProperty"}
    THEN IF TypeOf(response) # "object" \/ response = Null THEN Thrown(CannotReadNull)
         ELSE IF HasKey(response, "data") THEN Returned(Get(response, "data"))
         ELSE Returned(response)
  ELSE IF op = "deleteProperty" THEN Returned(Undefined)
  ELSE Returned(response)

\* if (v): the values a condition takes for true
Truthy(v) == v \notin {Undefined, Null, Str(""), Num(0), Bool(FALSE)}

\* filters?.k
OptionalField(f, k) == IF f = Undefined THEN Undefined ELSE Get(f, k)

DecimalDigits == <<"0", "1", "2", "3", "4", "5", "6", "7", "8", "9">>

\* n.toString(), for an integer n
RECURSIVE NumberToString(_)
NumberToString(n) ==
  IF n < 0 THEN "-" \o NumberToString(-n)
  ELSE IF n < 10 THEN DecimalDigits[n + 1]
  ELSE NumberToString(n \div 10) \o DecimalDigits[(n % 10) + 1]

\* b.toString()
BooleanToString(b) == IF b THEN "true" ELSE "false"

\* one entry of a URLSearchParams
Param(k, v) == [key |-> k, value |-> v]

\* if (filters?.k) params.append(k, filters.k)
StringParam(f, k) ==
  IF Truthy(OptionalField(f, k)) THEN <<Param(k, OptionalField(f, k).s)>> ELSE <<>>

\* if (filters?.k !== null && filters?.k !== undefined)
\*   params.append(k, filters.k.toString())
NumberParam(f, k) ==
  IF OptionalField(f, k) # Null /\ OptionalField(f, k) # Undefined
    THEN <<Param(k, NumberToString(OptionalField(f, k).n))>>
  ELSE <<>>

\* the same test on the truth of the field, which drops active: false
ActiveParamIfTruthy(f) ==
  IF Truthy(OptionalField(f, "active"))
    THEN <<Param("active", BooleanToString(OptionalField(f, "active").b))>>
  ELSE <<>>

ActiveParam(f) ==
  IF OptionalField(f, "active") # Null /\ OptionalField(f, "active") # Undefined
    THEN <<Param("active", BooleanToString(OptionalField(f, "active").b))>>
  ELSE <<>>

\* the URLSearchParams getProperties fills, in the order of its appends
BuildParams(f) ==
  StringParam(f, "name") \o StringParam(f, "address")
    \o NumberParam(f, "priceMin") \o NumberParam(f, "priceMax")
    \o StringParam(f, "type") \o ActiveParam(f)

\* the application/x-www-form-urlencoded form of a string of the model:
\* a space becomes +, letters and digits stay
FormEncode(s) == IF s = "Sea View" THEN "Sea+View" ELSE s

\* params.toString()
RECURSIVE ParamsToString(_)
ParamsToString(params) ==
  IF params = <<>> THEN ""
  ELSE LET pair == FormEncode(Head(params).key) \o "=" \o FormEncode(Head(params).value)
       IN IF Len(params) = 1 THEN pair
          ELSE pair \o "&" \o ParamsToString(Tail(params))

PropertiesEndpoint == "/properties"

\* the endpoint getProperties requests
Endpoint(params) ==
  IF ParamsToString(params) # ""
    THEN PropertiesEndpoint \o "?" \o ParamsToString(params)
  ELSE PropertiesEndpoint

(***************************************************************************)
(* Bounds and input domains                                                *)
(***************************************************************************)
\* largest maxAttempts a direct caller of withRetry passes
MaxAttemptsBound == 3

ApiErrorOf(message, statusCode) ==
  Obj("Object", [message |-> Str(message), statusCode |-> Num(statusCode)])

\* the option sets a direct caller passes (a key may be left out)
OptionSets ==
  [maxAttempts : {{}} \cup {{n} : n \in -1..MaxAttemptsBound},
   delayMs : {{}, {100}},
   backoffMultiplier : {{}, {3}},
   retryableStatusCodes : {{}, {{400, 500}}, {{}}}]

\* what the operation handed to withRetry settles with
OperationOutcomes ==
  {Returned(Str("value"))}
    \cup {Thrown(ApiErrorOf(m, c)) : m \in {"E1", "E2"}, c \in {0, 400, 500, 503}}

ValidationErrors == Obj("Object", [name |-> Arr(<<Str("Name is required")>>)])

Json(v) == [parses |-> TRUE, json |-> v]

NotJson == [parses |-> FALSE]

Response(status, statusText, body) ==
  [rejected |-> FALSE, status |-> status, statusText |-> statusText, body |-> body]

FailureStatuses == {404, 500, 503}

FailureResponses ==
  {Response(st, tx, b) :
     st \in FailureStatuses, tx \in {"", "Status Text"},
     b \in {NotJson, Json(Obj("Object", [errors |-> ValidationErrors]))}}
  \cup
  {Response(st, "Status Text", b) :
     st \in FailureStatuses,
     b \in {Json(Null),
            Json(Obj("Object", [message |-> Str("Server error")])),
            Json(Obj("Object", [message |-> Str("Validation failed"),
                                errors |-> ValidationErrors]))}}

Payload == Obj("Object", [id |-> Str("1")])

SuccessResponses ==
  {Response(200, "OK", b) :
     b \in {NotJson, Json(Payload), Json(Arr(<<Payload>>)),
            Json(Obj("Object", [data |-> Payload, success |-> Bool(TRUE)])),
            Json(Obj("Object", [data |-> Arr(<<Payload>>), success |-> Bool(TRUE)]))}}
  \cup {Response(204, "No Content", NotJson)}

FetchRejections ==
  {[rejected |-> TRUE, reason |-> Obj("TypeError", [message |-> Str(FailedToFetch)])],
   [rejected |-> TRUE, reason |-> Obj("Error", [message |-> Str("Network error")])]}

\* what fetch settles with
FetchOutcomes == FetchRejections \cup FailureResponses \cup SuccessResponses

\* values a thrown object may hold under a key
PropValues == {Undefined, Null, Str(""), Str("Server error"), Num(404)}

PlainObjects ==
  {Obj("Object", [message |-> m, statusCode |-> c]) : m \in PropValues, c \in PropValues}
    \cup {Obj("Object", [message |-> m]) : m \in PropValues}
    \cup {Obj("Object", [statusCode |-> c]) : c \in PropValues}
    \cup {EmptyObject}

ErrorClasses == {"Error", "TypeError", "SyntaxError"}

\* exceptions, bare or with a statusCode attached
Exceptions ==
  {Obj(cls, [message |-> Str(m)]) :
     cls \in ErrorClasses, m \in {"", "boom", FailedToFetch}}
    \cup {Obj(cls, [message |-> Str(m), statusCode |-> c]) :
           cls \in ErrorClasses, m \in {"boom", FailedToFetch}, c \in {Undefined, Num(404)}}
    \cup {Obj(cls, [k \in {} |-> Undefined]) : cls \in ErrorClasses}

Primitives ==
  {Undefined, Null, Str("boom"), Str(FailedToFetch), Num(0), Bool(FALSE), Arr(<<>>)}

\* the raw inputs of the error normalizer
RawInputs == PlainObjects \cup Exceptions \cup Primitives

\* useProperties: const { debounceMs = 500 } = options
DefaultDebounceMs == 500

FilterFields == {"name", "address", "priceMin", "priceMax", "type", "active"}

\* the filters getProperties is called with: none, or an object whose
\* fields are left out (undefined), null, empty or set
FilterInputs ==
  {Undefined} \cup
  {Obj("Object", [name |-> n, address |-> a, priceMin |-> lo, priceMax |-> hi,
                  type |-> ty, active |-> ac]) :
     n \in {Undefined, Null, Str(""), Str("Beach"), Str("Sea View")},
     a \in {Undefined, Str("Main")},
     lo \in {Undefined, Null, Num(0), Num(100000)},
     hi \in {Undefined, Num(500000), Num(-5)},
     ty \in {Undefined, Null, Str(""), Str("House")},
     ac \in {Undefined, Null, Bool(TRUE), Bool(FALSE)}}

\* a ?? b
Nullish(a, b) == IF a \in {Null, Undefined} THEN b ELSE a

\* the filters loadData hands to getProperties
LoadArgs(f) ==
  Obj("Object",
      [name |-> OrElse(Get(f, "name"), Undefined),
       address |-> OrElse(Get(f, "address"), Undefined),
       priceMin |-> Nullish(Get(f, "priceMin"), Undefined),
       priceMax |-> Nullish(Get(f, "priceMax"), Undefined),
       type |-> OrElse(Get(f, "type"), Undefined),
       active |-> Nullish(Get(f, "active"), Undefined)])

\* page.tsx: the filter state of the first render
HomeInitialFilter ==
  Obj("Object", [name |-> Str(""), address |-> Str(""), priceMin |-> Null,
                 priceMax |-> Null, type |-> Null, active |-> Null])

\* page.tsx: the message shown when a failed load has none
LoadFailedMessage == "Failed to load data. Please try again."

\* how many calls the user of the controller makes: of setFilter, refresh
\* and the mutation methods together
MaxCalls == 2

\* how far the clock moves in one step, and how long it is watched after
\* the debounce effect ran
TimeSteps == {250}

MaxElapsed == 500

\* the debounceMs option: left out, or set
DebounceOptions == {{}, {250}}

Property(id, name) == [id |-> id, name |-> name]

\* the id the methods are called with
PropertyIds == {"1"}

\* what getProperties resolves with
ListResponses ==
  {<<Property("1", "Casa"), Property("2", "Loft")>>,
   <<Property("3", "Nueva"), Property("1", "Casa")>>}

\* what getCategories resolves with
CategoryResponses == {<<>>, <<"House">>}

\* what an API method rejects with
ControllerErrors == {ApiErrorOf("E1", 500)}

\* what createProperty resolves with
CreatedRecords == {Property("3", "Nueva")}

\* what updateProperty(id, input) resolves with
UpdatedRecord(id) == Property(id, "Edited")

\* the filters setFilter is called with
FilterChanges ==
  {Obj("Object", [name |-> Str("A")]), Obj("Object", [name |-> Str("AB")])}

(***************************************************************************)
(* State                                                                   *)
(***************************************************************************)
VARIABLES
  caller,        \* "none", "withRetry" (a direct call) or the API method called
  pc,            \* "idle", "awaitFn", "sleeping", "resolved", "rejected"
  opts,          \* withRetry: the merged options
  attempt,       \* withRetry: the loop counter
  currentDelay,  \* withRetry: the delay of the next sleep
  lastError,     \* withRetry: the last error caught
  result,        \* what the call resolved or rejected with
  events,        \* what the call did so far, in order
  raw,           \* error normalizer: the input
  parsed,        \* error normalizer: outcome of parseError(raw)
  handled,       \* error normalizer: outcome of handleError(raw)
  reparsed,      \* error normalizer: outcome of parseError(parseError(raw))
  filters,       \* getProperties: the filters argument
  query,         \* getProperties: the parameters and the endpoint it builds
  component,     \* controller: "useProperties" (the hook) or "Home" (the page)
  mounted,       \* controller: the effects of the first render have run
  debounceMs,    \* controller: the quiet period of the filter debounce
  properties,    \* controller state: the list shown
  categories,    \* controller state: the reference data
  filter,        \* controller state: the filter
  isLoading,     \* controller state
  isSubmitting,  \* controller state
  selectedProperty, \* page state: the record viewed in the modal, or null
  pageError,     \* page state (error): the message of the last failed load, or null
  debounceTimer, \* controller: the timer of debounceTimerRef
  elapsed,       \* the time, in ms, since the debounce effect last ran
  loads,         \* controller: the loadData calls in flight
  mutations,     \* controller: the create, update and delete calls in flight
  calls,         \* calls made so far by the user of the controller
  step,          \* what the last step showed: callbacks made, promise settled
  reloads,       \* loads started by the debounce timer since the effect last ran
  burst,         \* filter changes made while a timer was pending, this one included
  toastCounter,  \* useToast: the module-level counter the ids are made from
  toasts,        \* useToast: the toast list of each rendered hook
  timeouts,      \* useToast: the removals scheduled with setTimeout
  now,           \* useToast: the time, in ms, since the hooks were rendered
  lastToast,     \* useToast: the last step, and what addToast returned
  added          \* useToast: every toast ever added: hook, id, time

retryVars == <<opts, attempt, currentDelay, lastError>>

callVars == <<caller, pc, result, events>>

parseVars == <<raw, parsed, handled, reparsed>>

queryVars == <<filters, query>>

stateVars ==
  <<properties, categories, filter, isLoading, isSubmitting, selectedProperty, pageError>>

ctlVars ==
  <<component, mounted, debounceMs, stateVars, debounceTimer, elapsed, loads,
    mutations, calls, step, reloads, burst>>

toastVars == <<toastCounter, toasts, timeouts, now, lastToast, added>>

\* the variables the controller leaves alone
outsideController == <<callVars, retryVars, parseVars, queryVars, toastVars>>

\* the variables useToast leaves alone
outsideToast == <<callVars, retryVars, parseVars, queryVars, ctlVars>>

\* the variables a call of withRetry or of the API client leaves alone
outsideCall == <<parseVars, queryVars, ctlVars, toastVars>>

\* the variables the error normalizer leaves alone
outsideParse == <<callVars, retryVars, queryVars, ctlVars, toastVars>>

vars == <<caller, pc, opts, attempt, currentDelay, lastError, result, events,
          raw, parsed, handled, reparsed, filters, query, ctlVars, toastVars>>

NotCalled == [t |-> "not called"]

NoFetch == [rejected |-> FALSE, status |-> 0, statusText |-> "", body |-> NotJson]

\* getProperties is not being called
NoQuery ==
  /\ filters = Undefined
  /\ query = NotCalled

\* the hooks that render useToast
ToastHooks == {"a", "b"}

\* no toast step was taken
NoToastStep == [op |-> "none", hook |-> "none", id |-> ""]

\* useToast after the module was loaded and each hook was rendered once:
\* let toastCounter = 0; useState<Toast[]>([])
NoToasts ==
  /\ toastCounter = 0
  /\ toasts = [h \in ToastHooks |-> <<>>]
  /\ timeouts = {}
  /\ now = 0
  /\ lastToast = NoToastStep
  /\ added = <<>>

\* no timeout is scheduled
NoTimer == [armed |-> FALSE]

\* a timeout that will call loadData of some render when remaining ms have
\* passed
Timer(remaining, loadData) ==
  [armed |-> TRUE, remaining |-> remaining, loadData |-> loadData]

\* what a step showed: the method that ran on, its argument, what the API
\* call it awaited settled with, the callbacks it made, in order, and what
\* the promise it had returned settled with
Step(method, arg, api, callbacks, settled) ==
  [method |-> method, arg |-> arg, api |-> api, callbacks |-> callbacks,
   settled |-> settled]

NoStep == Step("none", Undefined, NotCalled, <<>>, NotCalled)

\* the state of a component at its first render
FirstRender(c, f, ms) ==
  /\ component = c
  /\ mounted = FALSE
  /\ debounceMs = ms
  /\ properties = <<>>
  /\ categories = <<>>
  /\ filter = f
  /\ isLoading = TRUE
  /\ isSubmitting = FALSE
  /\ selectedProperty = Null
  /\ pageError = Null
  /\ debounceTimer = NoTimer
  /\ elapsed = 0
  /\ loads = {}
  /\ mutations = {}
  /\ calls = 0
  /\ step = NoStep
  /\ reloads = 0
  /\ burst = 0

\* no component is rendered
NoController == FirstRender("none", EmptyObject, DefaultDebounceMs)

CallEvent(a) == [ev |-> "call", attempt |-> a]

FetchEvent == [ev |-> "fetch"]

\* fn settled with outcome (for the API client: after fetch settled with fetched)
SettleEvent(outcome, fetched) ==
  [ev |-> "settle", outcome |-> outcome, fetched |-> fetched]

OnRetryEvent(a, error) == [ev |-> "onRetry", attempt |-> a, error |-> error]

SleepEvent(ms) == [ev |-> "sleep", ms |-> ms]

WakeEvent == [ev |-> "wake"]

(***************************************************************************)
(* withRetry (lib/utils/retry.ts), as the steps between its awaits         *)
(***************************************************************************)
\* what invoking fn does at once: a direct caller's operation starts; the
\* API client's fn calls request, which calls fetch
InvokeFn(who, a) ==
  IF who = "withRetry" THEN <<CallEvent(a)>> ELSE <<CallEvent(a), FetchEvent>>

\* mutant of EnterLoop: the loop test is off by one
EnterLoopOneMore(who, o, a, error, evs) ==
  IF a <= o.maxAttempts + 1
  THEN /\ pc' = "awaitFn"
       /\ events' = evs \o InvokeFn(who, a)
       /\ result' = result
  ELSE /\ pc' = "rejected"
       /\ events' = evs
       /\ result' = error

\* the loop test with counter a and, when it passes, the invocation of fn;
\* when it fails, throw lastError
EnterLoop(who, o, a, error, evs) ==
  IF a <= o.maxAttempts
  THEN /\ pc' = "awaitFn"
       /\ events' = evs \o InvokeFn(who, a)
       /\ result' = result
  ELSE /\ pc' = "rejected"
       /\ events' = evs
       /\ result' = error

\* const opts = ...; let lastError = null; let currentDelay = opts.delayMs;
\* then the first pass of the loop
StartWithRetry(who, options) ==
  LET o == MergeOptions(options)
  IN /\ opts' = o
     /\ lastError' = Null
     /\ currentDelay' = o.delayMs
     /\ attempt' = 1
     /\ EnterLoop(who, o, 1, Null, events)

\* mutant of CatchError: lastError keeps the first error caught
CatchErrorKeepsFirst(apiError, evs) ==
  LET kept == IF lastError = Null THEN apiError ELSE lastError
  IN /\ lastError' = kept
     /\ IF attempt = opts.maxAttempts
           \/ ~isRetryable(apiError, opts.retryableStatusCodes)
        THEN /\ pc' = "rejected"
             /\ result' = kept
             /\ events' = evs
        ELSE /\ pc' = "sleeping"
             /\ result' = result
             /\ events' = evs \o <<OnRetryEvent(attempt, apiError),
                                    SleepEvent(currentDelay)>>
     /\ UNCHANGED <<opts, attempt, currentDelay>>

\* the catch block: fn rejected with apiError
CatchError(apiError, evs) ==
  /\ lastError' = apiError
  /\ IF attempt = opts.maxAttempts
        \/ ~isRetryable(apiError, opts.retryableStatusCodes)
     THEN /\ pc' = "rejected"
          /\ result' = apiError
          /\ events' = evs
     ELSE /\ pc' = "sleeping"
          /\ result' = result
          /\ events' = evs \o <<OnRetryEvent(attempt, apiError),
                                 SleepEvent(currentDelay)>>
  /\ UNCHANGED <<opts, attempt, currentDelay>>

\* mutant of ReturnResult: the value is awaited but not returned, and the
\* loop goes on
ReturnResultKeepsLooping(value, evs) ==
  /\ attempt' = attempt + 1
  /\ EnterLoop(caller, opts, attempt + 1, lastError, evs)
  /\ UNCHANGED <<opts, currentDelay, lastError>>

\* return await fn(): fn resolved with value
ReturnResult(value, evs) ==
  /\ pc' = "resolved"
  /\ result' = value
  /\ events' = evs
  /\ UNCHANGED retryVars

\* mutant of SleepElapsed: the delay is not multiplied
SleepElapsedNoBackoff ==
  /\ pc = "sleeping"
  /\ currentDelay' = currentDelay
  /\ attempt' = attempt + 1
  /\ EnterLoop(caller, opts, attempt + 1, lastError, events \o <<WakeEvent>>)
  /\ UNCHANGED <<caller, opts, lastError, outsideCall>>

\* the timer of sleep fires: backoff, attempt++, and the next pass of the loop
SleepElapsed ==
  /\ pc = "sleeping"
  /\ currentDelay' = currentDelay * opts.backoffMultiplier
  /\ attempt' = attempt + 1
  /\ EnterLoop(caller, opts, attempt + 1, lastError, events \o <<WakeEvent>>)
  /\ UNCHANGED <<caller, opts, lastError, outsideCall>>

\* a direct call withRetry(fn, options)
CallWithRetry ==
  /\ pc = "idle"
  /\ \E options \in OptionSets :
       /\ caller' = "withRetry"
       /\ StartWithRetry("withRetry", options)
  /\ UNCHANGED outsideCall

\* the operation of a direct call settles
OperationSettles ==
  /\ pc = "awaitFn"
  /\ caller = "withRetry"
  /\ \E outcome \in OperationOutcomes :
       IF outcome.threw
       THEN CatchError(outcome.value, events \o <<SettleEvent(outcome, NoFetch)>>)
       ELSE ReturnResult(outcome.value, events \o <<SettleEvent(outcome, NoFetch)>>)
  /\ UNCHANGED <<caller, outsideCall>>

(***************************************************************************)
(* The API client (lib/api/propertyService.ts)                             *)
(***************************************************************************)
\* getProperties, getPropertyById, getCategories: retryableRequest
CallRead ==
  /\ pc = "idle"
  /\ \E op \in ReadOperations :
       /\ caller' = op
       /\ StartWithRetry(op, RetryableRequestOptions)
  /\ UNCHANGED outsideCall

\* createProperty, updateProperty, deleteProperty: request; uploadImage: fetch
CallWrite ==
  /\ pc = "idle"
  /\ \E op \in WriteOperations \cup {"uploadImage"} :
       /\ caller' = op
       /\ pc' = "awaitFn"
       /\ events' = events \o <<FetchEvent>>
  /\ UNCHANGED <<retryVars, result, outsideCall>>

\* the method resolves with the unwrapped response, or rejects
Deliver(op, outcome, evs) ==
  LET final == IF outcome.threw THEN outcome ELSE Unwrap(op, outcome.value)
  IN /\ pc' = IF final.threw THEN "rejected" ELSE "resolved"
     /\ result' = final.value
     /\ events' = evs

\* the fetch of the call in flight settles
FetchSettles ==
  /\ pc = "awaitFn"
  /\ caller \in ApiOperations
  /\ \E fetched \in FetchOutcomes :
       LET outcome == IF caller = "uploadImage" THEN uploadImageRequest(fetched)
                      ELSE request(fetched)
           evs == events \o <<SettleEvent(outcome, fetched)>>
       IN IF caller \in ReadOperations /\ outcome.threw
          THEN CatchError(outcome.value, evs)
          ELSE /\ Deliver(caller, outcome, evs)
               /\ UNCHANGED retryVars
  /\ UNCHANGED <<caller, outsideCall>>

Init ==
  /\ caller = "none"
  /\ pc = "idle"
  /\ opts = MergeOptions(NoOptions)
  /\ attempt = 0
  /\ currentDelay = 0
  /\ lastError = Null
  /\ result = Undefined
  /\ events = <<>>
  /\ raw = Undefined
  /\ parsed = NotCalled
  /\ handled = NotCalled
  /\ reparsed = NotCalled
  /\ NoQuery
  /\ NoController
  /\ NoToasts

(***************************************************************************)
(* The error normalizer applied to a raw input                             *)
(***************************************************************************)
InitParse ==
  /\ caller = "none"
  /\ pc = "idle"
  /\ opts = MergeOptions(NoOptions)
  /\ attempt = 0
  /\ currentDelay = 0
  /\ lastError = Null
  /\ result = Undefined
  /\ events = <<>>
  /\ raw \in RawInputs
  /\ parsed = NotCalled
  /\ handled = NotCalled
  /\ reparsed = NotCalled
  /\ NoQuery
  /\ NoController
  /\ NoToasts

\* parseError(raw)
CallParseError ==
  /\ parsed = NotCalled
  /\ parsed' = parseError(raw)
  /\ UNCHANGED <<raw, handled, reparsed, outsideParse>>

\* handleError(raw, context)
CallHandleError ==
  /\ handled = NotCalled
  /\ handled' = handleError(raw)
  /\ UNCHANGED <<raw, parsed, reparsed, outsideParse>>

\* parseError(parseError(raw))
CallParseErrorAgain ==
  /\ parsed # NotCalled
  /\ reparsed = NotCalled
  /\ reparsed' = parseError(parsed)
  /\ UNCHANGED <<raw, parsed, handled, outsideParse>>

NextParse ==
  \/ CallParseError
  \/ CallHandleError
  \/ CallParseErrorAgain

SpecParse == InitParse /\ [][NextParse]_vars

(***************************************************************************)
(* getProperties: the endpoint built from the filters                      *)
(***************************************************************************)
InitQuery ==
  /\ caller = "none"
  /\ pc = "idle"
  /\ opts = MergeOptions(NoOptions)
  /\ attempt = 0
  /\ currentDelay = 0
  /\ lastError = Null
  /\ result = Undefined
  /\ events = <<>>
  /\ raw = Undefined
  /\ parsed = NotCalled
  /\ handled = NotCalled
  /\ reparsed = NotCalled
  /\ filters \in FilterInputs
  /\ query = NotCalled
  /\ NoController
  /\ NoToasts

\* getProperties(filters), up to the endpoint handed to retryableRequest
BuildEndpoint ==
  /\ query = NotCalled
  /\ query' = [params |-> BuildParams(filters),
               endpoint |-> Endpoint(BuildParams(filters))]
  /\ UNCHANGED <<filters, callVars, retryVars, parseVars, ctlVars, toastVars>>

NextQuery == BuildEndpoint

SpecQuery == InitQuery /\ [][NextQuery]_vars

(***************************************************************************)
(* The controller: hooks/useProperties.ts and its copy in app/page.tsx.    *)
(* A handler and the render that follows it are one step; loadData and the *)
(* timer callback act on the state of the render that made them.           *)
(***************************************************************************)
\* loadData of the current render: the filter and categories it closes over
CurrentLoadData == [filter |-> filter, categories |-> categories]

\* loadData asks for the categories: always on the page, when it has none
\* in the hook
CallsGetCategories(loadData) ==
  component = "Home" \/ Len(loadData.categories) = 0

\* a number no call in flight has
FreeNumber(inFlight) ==
  CHOOSE k \in 1..(Cardinality(inFlight) + 1) :
    \A c \in inFlight : c.n # k

\* loadData, up to its await
StartLoad(source, loadData) ==
  /\ loads' = loads \cup
       {[n |-> FreeNumber(loads),
         source |-> source,
         loadData |-> loadData,
         args |-> LoadArgs(loadData.filter),
         getCategories |-> CallsGetCategories(loadData)]}
  /\ isLoading' = TRUE
  /\ pageError' = IF component = "Home" THEN Null ELSE pageError

\* the two effects of the first render: loadData(), and the debounce timer
Mount ==
  /\ component # "none"
  /\ ~mounted
  /\ mounted' = TRUE
  /\ StartLoad("mount", CurrentLoadData)
  /\ debounceTimer' = Timer(debounceMs, CurrentLoadData)
  /\ elapsed' = 0
  /\ reloads' = 0
  /\ burst' = 0
  /\ step' = NoStep
  /\ UNCHANGED <<component, debounceMs, properties, categories, filter,
                 isSubmitting, selectedProperty, mutations, calls,
                 outsideController>>

\* a throttle: a change made while a timer is pending leaves that timer alone
SetFilterThrottles ==
  /\ component = "useProperties"
  /\ mounted
  /\ calls < MaxCalls
  /\ \E f \in FilterChanges :
       /\ filter' = f
       /\ debounceTimer' =
            IF debounceTimer.armed THEN debounceTimer
            ELSE Timer(debounceMs, [filter |-> f, categories |-> categories])
       /\ step' = NoStep
  /\ elapsed' = 0
  /\ reloads' = 0
  /\ burst' = IF debounceTimer.armed THEN burst + 1 ELSE 1
  /\ calls' = calls + 1
  /\ UNCHANGED <<component, mounted, debounceMs, properties, categories,
                 isLoading, isSubmitting, selectedProperty, pageError,
                 loads, mutations, outsideController>>

\* setFilter(f), and the debounce effect of the render it causes
SetFilter ==
  /\ component = "useProperties"
  /\ mounted
  /\ calls < MaxCalls
  /\ \E f \in FilterChanges :
       /\ filter' = f
       /\ debounceTimer' =
            Timer(debounceMs, [filter |-> f, categories |-> categories])
       /\ step' = NoStep
  /\ elapsed' = 0
  /\ reloads' = 0
  /\ burst' = IF debounceTimer.armed THEN burst + 1 ELSE 1
  /\ calls' = calls + 1
  /\ UNCHANGED <<component, mounted, debounceMs, properties, categories,
                 isLoading, isSubmitting, selectedProperty, pageError,
                 loads, mutations, outsideController>>

\* what is typed into the name input of the page's filter
NameInputs == {"A", "AB"}

\* the name input of PropertyFilter on the page changes:
\* onChange({ ...filter, name: value }) is setFilter of Home, and the debounce
\* effect of the render it causes
ChangeName ==
  /\ component = "Home"
  /\ mounted
  /\ calls < MaxCalls
  /\ \E value \in NameInputs :
       LET next == Obj("Object", [filter.props EXCEPT !.name = Str(value)])
       IN /\ filter' = next
          /\ debounceTimer' =
               Timer(debounceMs, [filter |-> next, categories |-> categories])
  /\ step' = NoStep
  /\ elapsed' = 0
  /\ reloads' = 0
  /\ burst' = IF debounceTimer.armed THEN burst + 1 ELSE 1
  /\ calls' = calls + 1
  /\ UNCHANGED <<component, mounted, debounceMs, properties, categories,
                 isLoading, isSubmitting, selectedProperty, pageError,
                 loads, mutations, outsideController>>

\* the debounce timer expires: loadData of the render that set it
TimerFires ==
  /\ mounted
  /\ debounceTimer.armed
  /\ debounceTimer.remaining = 0
  /\ StartLoad("timer", debounceTimer.loadData)
  /\ debounceTimer' = NoTimer
  /\ reloads' = reloads + 1
  /\ step' = NoStep
  /\ UNCHANGED <<component, mounted, debounceMs, properties, categories, filter,
                 isSubmitting, selectedProperty, elapsed, mutations, calls,
                 burst, outsideController>>

\* refresh()
Refresh ==
  /\ component = "useProperties"
  /\ mounted
  /\ calls < MaxCalls
  /\ calls' = calls + 1
  /\ StartLoad("refresh", CurrentLoadData)
  /\ step' = NoStep
  /\ UNCHANGED <<component, mounted, debounceMs, properties, categories, filter,
                 isSubmitting, selectedProperty, debounceTimer, elapsed, mutations, reloads, burst,
                 outsideController>>

\* time passes, up to the expiry of the timer
Advance ==
  /\ mounted
  /\ \E ms \in TimeSteps :
       /\ elapsed + ms <= MaxElapsed
       /\ debounceTimer.armed => ms <= debounceTimer.remaining
       /\ elapsed' = elapsed + ms
       /\ debounceTimer' =
            IF debounceTimer.armed
              THEN [debounceTimer EXCEPT !.remaining = @ - ms]
            ELSE debounceTimer
  /\ step' = NoStep
  /\ UNCHANGED <<component, mounted, debounceMs, stateVars, loads,
                 mutations, calls, reloads, burst,
                 outsideController>>

\* a callback the controller makes
Callback(cb, arg) == [cb |-> cb, arg |-> arg]

\* a load whose result is dropped when a list is already shown
LoadSucceedsFirstWins(l, outcome, propertiesData, categoriesData) ==
  /\ properties' = IF Len(properties) > 0 THEN properties ELSE propertiesData
  /\ categories' = IF CallsGetCategories(l.loadData) THEN categoriesData
                   ELSE categories
  /\ isLoading' = FALSE
  /\ loads' = loads \ {l}
  /\ step' = Step("loadData", l.source, outcome, <<>>, Returned(Undefined))
  /\ UNCHANGED pageError

\* loadData after its await, both requests resolved
LoadSucceeds(l, outcome, propertiesData, categoriesData) ==
  /\ properties' = propertiesData
  /\ categories' = IF CallsGetCategories(l.loadData) THEN categoriesData
                   ELSE categories
  /\ isLoading' = FALSE
  /\ loads' = loads \ {l}
  /\ step' = Step("loadData", l.source, outcome, <<>>, Returned(Undefined))
  /\ UNCHANGED pageError

\* a failed load that empties the list
LoadFailsClearsList(l, e) ==
  /\ isLoading' = FALSE
  /\ loads' = loads \ {l}
  /\ properties' = <<>>
  /\ step' = Step("loadData", l.source, Thrown(e), <<Callback("onError", e)>>,
                  Returned(Undefined))
  /\ UNCHANGED <<categories, pageError>>

\* loadData after its await, a request rejected: the catch and the finally
LoadFails(l, e) ==
  /\ isLoading' = FALSE
  /\ loads' = loads \ {l}
  /\ pageError' = IF component = "Home"
                    THEN OrElse(Get(e, "message"), Str(LoadFailedMessage))
                  ELSE pageError
  /\ step' = Step("loadData", l.source, Thrown(e),
                  IF component = "Home" THEN <<>> ELSE <<Callback("onError", e)>>,
                  Returned(Undefined))
  /\ UNCHANGED <<properties, categories>>

\* what the Promise.all of a load settles with: both results, or the error
\* of the request that rejected first (getCategories only when it is called)
LoadOutcomes(l) ==
  {Returned([propertiesData |-> x, categoriesData |-> y]) :
     x \in ListResponses,
     y \in IF CallsGetCategories(l.loadData) THEN CategoryResponses
           ELSE {l.loadData.categories}}
    \cup {Thrown(e) : e \in ControllerErrors}

\* the Promise.all of a load in flight settles, and loadData runs to its end
LoadSettles ==
  /\ \E l \in loads :
       \E outcome \in LoadOutcomes(l) :
         IF outcome.threw THEN LoadFails(l, outcome.value)
         ELSE LoadSucceeds(l, outcome, outcome.value.propertiesData,
                           outcome.value.categoriesData)
  /\ UNCHANGED <<component, mounted, debounceMs, filter, isSubmitting,
                 selectedProperty, debounceTimer, elapsed, mutations, calls,
                 reloads, burst, outsideController>>

\* [...prev, r]
PrependAtEnd(r, prev) == prev \o <<r>>

\* [r, ...prev]
Prepend(r, prev) == <<r>> \o prev

\* prev.map(() => updated)
ReplaceEvery(prev, id, updated) == [i \in DOMAIN prev |-> updated]

\* prev.map((p) => (p.id === id ? updated : p))
ReplaceById(prev, id, updated) ==
  [i \in DOMAIN prev |-> IF prev[i].id = id THEN updated ELSE prev[i]]

\* prev.filter((p) => p.id !== id)
RemoveById(prev, id) ==
  LET Other(q) == q.id # id IN SelectSeq(prev, Other)

\* properties.find((p) => p.id === id)
FindById(list, id) ==
  LET Same(q) == q.id = id
  IN IF SelectSeq(list, Same) = <<>> THEN Undefined ELSE Head(SelectSeq(list, Same))

\* a create, update or delete call awaiting the API; selected is the
\* selectedProperty of the render whose deleteProperty was called
Mutation(method, id) ==
  [n |-> FreeNumber(mutations), method |-> method, id |-> id,
   selected |-> selectedProperty]

\* a mutation method, up to its await
StartMutation(method, id) ==
  /\ calls < MaxCalls
  /\ mutations' = mutations \cup {Mutation(method, id)}
  /\ calls' = calls + 1
  /\ isSubmitting' = IF method = "deleteProperty" THEN isSubmitting ELSE TRUE
  /\ step' = NoStep

\* createProperty(input) of the hook, addProperty(input) of the page
CreateProperty ==
  /\ mounted
  /\ StartMutation("createProperty", Undefined)
  /\ UNCHANGED <<component, mounted, debounceMs, properties, categories, filter,
                 isLoading, selectedProperty, pageError, debounceTimer, elapsed,
                 loads, reloads, burst,
                 outsideController>>

\* updateProperty(id, input)
UpdateProperty ==
  /\ component = "useProperties"
  /\ mounted
  /\ \E id \in PropertyIds : StartMutation("updateProperty", id)
  /\ UNCHANGED <<component, mounted, debounceMs, properties, categories, filter,
                 isLoading, selectedProperty, pageError, debounceTimer, elapsed,
                 loads, reloads, burst,
                 outsideController>>

\* deleteProperty(id) of the hook
DeleteProperty ==
  /\ component = "useProperties"
  /\ mounted
  /\ \E id \in PropertyIds : StartMutation("deleteProperty", id)
  /\ UNCHANGED <<component, mounted, debounceMs, properties, categories, filter,
                 isLoading, selectedProperty, pageError, debounceTimer, elapsed,
                 loads, reloads, burst,
                 outsideController>>

\* deleteProperty(id) of the page, from the Delete button of a card: it
\* returns when the user does not confirm
CardDelete ==
  /\ component = "Home"
  /\ mounted
  /\ \E id \in PropertyIds, confirmed \in BOOLEAN :
       IF confirmed THEN StartMutation("deleteProperty", id)
       ELSE /\ step' = Step("deleteProperty", id, NotCalled, <<>>, Returned(Undefined))
            /\ UNCHANGED <<mutations, calls, isSubmitting>>
  /\ UNCHANGED <<component, mounted, debounceMs, properties, categories, filter,
                 isLoading, selectedProperty, pageError, debounceTimer, elapsed,
                 loads, reloads, burst,
                 outsideController>>

\* the Delete button of the modal:
\* deleteProperty(selectedProperty.id); setSelectedProperty(null)
ModalDelete ==
  /\ component = "Home"
  /\ mounted
  /\ selectedProperty # Null
  /\ \E confirmed \in BOOLEAN :
       IF confirmed THEN StartMutation("deleteProperty", selectedProperty.id)
       ELSE /\ step' = Step("deleteProperty", selectedProperty.id, NotCalled,
                            <<>>, Returned(Undefined))
            /\ UNCHANGED <<mutations, calls, isSubmitting>>
  /\ selectedProperty' = Null
  /\ UNCHANGED <<component, mounted, debounceMs, properties, categories, filter,
                 isLoading, pageError, debounceTimer, elapsed, loads, reloads, burst,
                 outsideController>>

\* viewProperty(id)
ViewProperty ==
  /\ component = "Home"
  /\ mounted
  /\ \E id \in PropertyIds :
       /\ selectedProperty' = IF FindById(properties, id) # Undefined
                                THEN FindById(properties, id)
                              ELSE selectedProperty
       /\ step' = NoStep
  /\ UNCHANGED <<component, mounted, debounceMs, properties, categories, filter,
                 isLoading, isSubmitting, pageError, debounceTimer, elapsed, loads,
                 mutations, calls, reloads, burst,
                 outsideController>>

\* the Close button of the modal: setSelectedProperty(null)
CloseModal ==
  /\ component = "Home"
  /\ selectedProperty # Null
  /\ selectedProperty' = Null
  /\ step' = NoStep
  /\ UNCHANGED <<component, mounted, debounceMs, properties, categories, filter,
                 isLoading, isSubmitting, pageError, debounceTimer, elapsed, loads,
                 mutations, calls, reloads, burst,
                 outsideController>>

\* what the API call of a mutation settles with
MutationOutcomes(m) ==
  (IF m.method = "createProperty" THEN {Returned(r) : r \in CreatedRecords}
   ELSE IF m.method = "updateProperty" THEN {Returned(UpdatedRecord(m.id))}
   ELSE {Returned(Undefined)})
    \cup {Thrown(e) : e \in ControllerErrors}

\* the functional update a mutation applies to the list on success
Applied(m, value, prev) ==
  IF m.method = "createProperty" THEN Prepend(value, prev)
  ELSE IF m.method = "updateProperty" THEN ReplaceById(prev, m.id, value)
  ELSE RemoveById(prev, m.id)

SuccessMessage(method) ==
  IF method = "createProperty" THEN "Property created successfully"
  ELSE IF method = "updateProperty" THEN "Property updated successfully"
  ELSE "Property deleted successfully"

\* page.tsx: the text of the error toast of a failed mutation
FailureMessage(method, e) ==
  (IF method = "createProperty" THEN "Failed to create property: "
   ELSE "Failed to delete property: ") \o Get(e, "message").s

\* a mutation method that reports the error and does not re-throw it
HookMutationSwallows(m, outcome) ==
  /\ properties' = IF outcome.threw THEN properties
                   ELSE Applied(m, outcome.value, properties)
  /\ step' = Step(m.method, m.id, outcome,
                  IF outcome.threw THEN <<Callback("onError", outcome.value)>>
                  ELSE <<Callback("onSuccess", SuccessMessage(m.method))>>,
                  IF outcome.threw THEN Returned(Undefined) ELSE outcome)
  /\ UNCHANGED selectedProperty

\* what a mutation method of the hook does after its await
HookMutationSettles(m, outcome) ==
  /\ properties' = IF outcome.threw THEN properties
                   ELSE Applied(m, outcome.value, properties)
  /\ step' = Step(m.method, m.id, outcome,
                  IF outcome.threw THEN <<Callback("onError", outcome.value)>>
                  ELSE <<Callback("onSuccess", SuccessMessage(m.method))>>,
                  outcome)
  /\ UNCHANGED selectedProperty

\* what addProperty and deleteProperty of the page do after their await:
\* a toast, no value returned and nothing re-thrown
PageMutationSettles(m, outcome) ==
  /\ properties' = IF outcome.threw THEN properties
                   ELSE Applied(m, outcome.value, properties)
  /\ selectedProperty' =
       IF ~outcome.threw /\ m.method = "deleteProperty"
            /\ m.selected # Null /\ m.selected.id = m.id
         THEN Null
       ELSE selectedProperty
  /\ step' = Step(m.method, m.id, outcome,
                  IF outcome.threw
                    THEN <<Callback("toast.error", FailureMessage(m.method, outcome.value))>>
                  ELSE <<Callback("toast.success", SuccessMessage(m.method))>>,
                  Returned(Undefined))

\* the API call of a mutation in flight settles
MutationSettles ==
  /\ \E m \in mutations :
       /\ \E outcome \in MutationOutcomes(m) :
            IF component = "Home" THEN PageMutationSettles(m, outcome)
            ELSE HookMutationSettles(m, outcome)
       /\ mutations' = mutations \ {m}
       /\ isSubmitting' = IF m.method = "deleteProperty" THEN isSubmitting ELSE FALSE
  /\ UNCHANGED <<component, mounted, debounceMs, categories, filter, isLoading,
                 pageError, debounceTimer, elapsed, loads, calls, reloads, burst,
                 outsideController>>

\* no call of the API client or of the error normalizer is under way
NoApiCall ==
  /\ caller = "none"
  /\ pc = "idle"
  /\ opts = MergeOptions(NoOptions)
  /\ attempt = 0
  /\ currentDelay = 0
  /\ lastError = Null
  /\ result = Undefined
  /\ events = <<>>
  /\ raw = Undefined
  /\ parsed = NotCalled
  /\ handled = NotCalled
  /\ reparsed = NotCalled
  /\ NoQuery

\* the hook is rendered for the first time, with its options
InitController ==
  /\ NoApiCall
  /\ NoToasts
  /\ \E o \in DebounceOptions :
       FirstRender("useProperties", EmptyObject,
                   IF o = {} THEN DefaultDebounceMs ELSE CHOOSE ms \in o : TRUE)

NextController ==
  \/ Mount
  \/ SetFilter
  \/ TimerFires
  \/ Refresh
  \/ Advance
  \/ LoadSettles
  \/ CreateProperty
  \/ UpdateProperty
  \/ DeleteProperty
  \/ MutationSettles

SpecController == InitController /\ [][NextController]_vars

\* the page is rendered for the first time
InitHome ==
  /\ NoApiCall
  /\ NoToasts
  /\ FirstRender("Home", HomeInitialFilter, DefaultDebounceMs)

NextHome ==
  \/ Mount
  \/ ChangeName
  \/ TimerFires
  \/ Advance
  \/ LoadSettles
  \/ CreateProperty
  \/ CardDelete
  \/ ModalDelete
  \/ ViewProperty
  \/ CloseModal
  \/ MutationSettles

SpecHome == InitHome /\ [][NextHome]_vars

(***************************************************************************)
(* Toasts: the hook useToast. toastCounter belongs to the module, the list *)
(* to each hook that renders useToast.                                     *)
(***************************************************************************)
\* how many toasts are added in all
MaxToasts == 3

\* addToast: duration: number = 5000
DefaultToastDuration == 5000

\* how long the toasts are watched
MaxToastTime == 5000

\* how far the clock moves in a step when it does not move to the next
\* scheduled removal
ToastTimeSteps == {3000}

ToastTypes == {"success"}

\* the duration argument: left out, 0, or the 3000 ms of the tests
DurationArgs == {Undefined, Num(0), Num(3000)}

\* a parameter with a default value
DefaultParam(arg, default) == IF arg = Undefined THEN default ELSE arg

\* an id made from a counter that starts again after two toasts
ToastIdRestarts(n) == "toast-" \o NumberToString(((n - 1) % 2) + 1)

\* `toast-${n}`
ToastId(n) == "toast-" \o NumberToString(n)

\* prev.filter((toast) => toast.id !== id)
WithoutId(prev, id) ==
  LET Other(toast) == toast.id # id IN SelectSeq(prev, Other)

\* a removal scheduled whatever the duration
ScheduleAlways(h, id, duration) ==
  {[hook |-> h, id |-> id, due |-> now + duration]}

\* if (duration > 0) setTimeout(() => removeToast(id), duration)
Schedule(h, id, duration) ==
  IF duration > 0 THEN {[hook |-> h, id |-> id, due |-> now + duration]}
  ELSE {}

\* addToast(type, title, message, duration) of hook h
AddToast ==
  /\ toastCounter < MaxToasts
  /\ \E h \in ToastHooks, type \in ToastTypes, d \in DurationArgs :
       LET duration == DefaultParam(d, Num(DefaultToastDuration)).n
           id == ToastId(toastCounter + 1)
           toast == [id |-> id, type |-> type, title |-> "Title",
                     message |-> "Message", duration |-> duration]
       IN /\ toastCounter' = toastCounter + 1
          /\ toasts' = [toasts EXCEPT ![h] = Append(@, toast)]
          /\ timeouts' = timeouts \cup Schedule(h, id, duration)
          /\ lastToast' = [op |-> "addToast", hook |-> h, id |-> id]
          /\ added' = Append(added, [hook |-> h, id |-> id, at |-> now])
  /\ UNCHANGED <<now, outsideToast>>

\* removeToast(id) of hook h, called for a toast the hook shows
RemoveToast ==
  /\ \E h \in ToastHooks, n \in 1..toastCounter :
       /\ \E i \in DOMAIN toasts[h] : toasts[h][i].id = ToastId(n)
       /\ toasts' = [toasts EXCEPT ![h] = WithoutId(@, ToastId(n))]
       /\ lastToast' = [op |-> "removeToast", hook |-> h, id |-> ToastId(n)]
  /\ UNCHANGED <<toastCounter, timeouts, now, added, outsideToast>>

\* a scheduled removal is due: removeToast(id) of the hook that scheduled it
TimeoutFires ==
  /\ \E t \in timeouts :
       /\ t.due = now
       /\ toasts' = [toasts EXCEPT ![t.hook] = WithoutId(@, t.id)]
       /\ timeouts' = timeouts \ {t}
       /\ lastToast' = [op |-> "timeout", hook |-> t.hook, id |-> t.id]
  /\ UNCHANGED <<toastCounter, now, added, outsideToast>>

\* time passes: by a step, or up to a scheduled removal, and never past one
ToastAdvance ==
  /\ \E later \in {now + ms : ms \in ToastTimeSteps} \cup {t.due : t \in timeouts} :
       /\ later > now
       /\ later <= MaxToastTime
       /\ \A t \in timeouts : later <= t.due
       /\ now' = later
  /\ lastToast' = NoToastStep
  /\ UNCHANGED <<toastCounter, toasts, timeouts, added, outsideToast>>

InitToast ==
  /\ NoApiCall
  /\ NoController
  /\ NoToasts

NextToast ==
  \/ AddToast
  \/ RemoveToast
  \/ TimeoutFires
  \/ ToastAdvance

SpecToast == InitToast /\ [][NextToast]_vars

Next ==
  \/ CallWithRetry
  \/ OperationSettles
  \/ SleepElapsed
  \/ CallRead
  \/ CallWrite
  \/ FetchSettles

Spec == Init /\ [][Next]_vars

(***************************************************************************)
(* Observations on a call                                                  *)
(***************************************************************************)
IsCall(e) == e.ev = "call"

IsFetch(e) == e.ev = "fetch"

IsSettle(e) == e.ev = "settle"

\* invocations of the operation handed to withRetry
Calls == Len(SelectSeq(events, IsCall))

\* calls of fetch
Fetches == Len(SelectSeq(events, IsFetch))

\* what the invocations settled with, in order
Settles == SelectSeq(events, IsSettle)

Done == pc \in {"resolved", "rejected"}

\* the call goes through withRetry
ThroughWithRetry == caller \in {"withRetry"} \cup ReadOperations

Retryable(e) ==
  /\ e.outcome.threw
  /\ Get(e.outcome.value, "statusCode").t = "number"
  /\ Get(e.outcome.value, "statusCode").n \in opts.retryableStatusCodes

\* the fields a raw value has: its own, and the message of an exception
FieldsOf(v) ==
  IF v.t # "object" THEN {}
  ELSE DOMAIN v.props \cup (IF v.cls \in ErrorClasses THEN {"message"} ELSE {})

\* a network-level fetch failure: a TypeError whose message mentions fetch
IsFetchFailure(v) ==
  v.t = "object" /\ v.cls = "TypeError" /\ Get(v, "message") = Str(FailedToFetch)

Max(a, b) == IF a >= b THEN a ELSE b

RECURSIVE Pow(_, _)
Pow(b, n) == IF n <= 0 THEN 1 ELSE b * Pow(b, n - 1)

(***************************************************************************)
(* Claims                                                                  *)
(***************************************************************************)

\* C1 (as stated): one call to withRetry invokes the operation at most
\* maxAttempts times, for every option set.
C1_AtMostMaxAttempts ==
  ThroughWithRetry => Calls <= opts.maxAttempts

\* C1 (amended): one call to withRetry invokes the operation at most
\* max(maxAttempts, 0) times: never for maxAttempts <= 0.
C1_AtMostMaxAttemptsOrNone ==
  ThroughWithRetry => Calls <= Max(opts.maxAttempts, 0)

\* C1 witness: a call that used all of its (at least two) attempts.
C1_Witness ==
  /\ caller = "withRetry"
  /\ pc = "rejected"
  /\ opts.maxAttempts >= 2
  /\ Calls = opts.maxAttempts

\* C2: when every invocation fails with a retryable statusCode and
\* maxAttempts = n >= 1, the operation is invoked exactly n times and the call
\* rejects with the error of the n-th invocation; a read of the API client
\* whose server always answers 500 makes 3 fetches and rejects with 500.
C2_ExhaustsAttempts ==
  /\ (/\ ThroughWithRetry
      /\ opts.maxAttempts >= 1
      /\ \A i \in DOMAIN Settles : Retryable(Settles[i]))
     => /\ pc # "resolved"
        /\ Calls <= opts.maxAttempts
        /\ (pc = "rejected") = (Len(Settles) = opts.maxAttempts)
        /\ pc = "rejected" =>
             /\ Calls = opts.maxAttempts
             /\ result = Settles[opts.maxAttempts].outcome.value
  /\ (/\ caller \in ReadOperations
      /\ Done
      /\ \A i \in DOMAIN Settles :
           ~Settles[i].fetched.rejected /\ Settles[i].fetched.status = 500)
     => /\ pc = "rejected"
        /\ Fetches = 3
        /\ Get(result, "statusCode") = Num(500)

\* C2 witness: three failures with retryable codes, the first and the last
\* with different errors, and the call rejected.
C2_Witness ==
  /\ caller = "withRetry"
  /\ pc = "rejected"
  /\ opts.maxAttempts = 3
  /\ Len(Settles) = 3
  /\ \A i \in DOMAIN Settles : Retryable(Settles[i])
  /\ Settles[1].outcome.value # Settles[3].outcome.value

\* C3: a failure with a statusCode outside retryableStatusCodes ends the
\* call: no further invocation, no onRetry, no sleep, and the call rejects
\* with that error; when it is the first failure, the operation was invoked
\* exactly once.
C3_NonRetryableStops ==
  ThroughWithRetry =>
    \A i \in DOMAIN events :
      (IsSettle(events[i]) /\ events[i].outcome.threw /\ ~Retryable(events[i]))
        => /\ i = Len(events)
           /\ pc = "rejected"
           /\ result = events[i].outcome.value
           /\ (Len(Settles) = 1 => Calls = 1)

\* C3 witness: the first failure has statusCode 0 (not retryable), attempts
\* were left, and the call rejected after one invocation.
C3_Witness ==
  /\ caller = "withRetry"
  /\ pc = "rejected"
  /\ opts.maxAttempts >= 2
  /\ Calls = 1
  /\ Get(result, "statusCode") = Num(0)

\* C4: when the operation fails k times with retryable codes and then
\* succeeds, the call resolves with that value after exactly k+1 invocations
\* and nothing is invoked after the success.
C4_SuccessAfterFailures ==
  ThroughWithRetry =>
    \A i \in DOMAIN events :
      (IsSettle(events[i]) /\ ~events[i].outcome.threw)
        => /\ i = Len(events)
           /\ Calls = Len(Settles)
           /\ \A j \in 1..(Len(Settles) - 1) : Retryable(Settles[j])
           /\ caller = "withRetry" =>
                pc = "resolved" /\ result = events[i].outcome.value
           /\ caller \in ReadOperations =>
                result = Unwrap(caller, events[i].outcome.value).value

\* C4 witness: two retryable failures, then a success on the third invocation.
C4_Witness ==
  /\ caller = "withRetry"
  /\ pc = "resolved"
  /\ Calls = 3
  /\ Len(Settles) = 3
  /\ Settles[1].outcome.threw /\ Settles[2].outcome.threw
  /\ result = Str("value")

\* the delay before attempt k+1: delayMs * backoffMultiplier^(k-1)
BackoffDelay(k) == opts.delayMs * Pow(opts.backoffMultiplier, k - 1)

\* the index in events at which the k-th invocation settled (0 when it has not)
SettleIndex(k) ==
  LET at == {i \in DOMAIN events :
               IsSettle(events[i])
               /\ Len(SelectSeq(SubSeq(events, 1, i), IsSettle)) = k}
  IN IF at = {} THEN 0 ELSE CHOOSE i \in at : TRUE

\* C5: attempts never overlap and every retry is preceded by a wait: after
\* the k-th failed attempt that is retried, onRetry is called once with
\* (k, the k-th error), the call then sleeps delayMs * backoffMultiplier^(k-1)
\* ms, and only after the sleep does attempt k+1 start; onRetry is not called
\* for the failure that ends the call.
C5_SequentialBackoff ==
  ThroughWithRetry =>
    /\ \A i \in DOMAIN events :
         IsCall(events[i]) =>
           \* attempt k is invoked once, after attempt k-1 settled and the
           \* sleep that followed it ended
           /\ events[i].attempt = Len(SelectSeq(SubSeq(events, 1, i), IsCall))
           /\ Len(SelectSeq(SubSeq(events, 1, i - 1), IsSettle)) = events[i].attempt - 1
           /\ events[i].attempt > 1 =>
                /\ i > 4
                /\ events[i - 1] = WakeEvent
                /\ events[i - 2] = SleepEvent(BackoffDelay(events[i].attempt - 1))
                /\ events[i - 3].ev = "onRetry"
    /\ \A i \in DOMAIN events :
         events[i].ev = "onRetry" =>
           LET k == events[i].attempt
           IN /\ i > 1
              /\ SettleIndex(k) = i - 1
              /\ events[i - 1].outcome = Thrown(events[i].error)
              /\ i < Len(events)
              /\ events[i + 1] = SleepEvent(BackoffDelay(k))
              /\ \A j \in DOMAIN events :
                   (events[j].ev = "onRetry" /\ events[j].attempt = k) => j = i
    /\ \A i \in DOMAIN events :
         events[i].ev = "sleep" => i > 1 /\ events[i - 1].ev = "onRetry"
    /\ pc = "sleeping" => events[Len(events)].ev = "sleep"
    /\ pc = "rejected" /\ events # <<>> =>
         /\ IsSettle(events[Len(events)])
         /\ result = events[Len(events)].outcome.value

\* C5 witness: with delayMs 100 and backoffMultiplier 3 the second retry
\* waited 300 ms and the third attempt started after it.
C5_Witness ==
  /\ caller = "withRetry"
  /\ opts.delayMs = 100
  /\ opts.backoffMultiplier = 3
  /\ \E i \in DOMAIN events :
       /\ i > 3
       /\ IsCall(events[i]) /\ events[i].attempt = 3
       /\ events[i - 2] = SleepEvent(300)
       /\ events[i - 3].ev = "onRetry" /\ events[i - 3].attempt = 2

\* C6: createProperty, updateProperty, deleteProperty and uploadImage issue
\* exactly one HTTP request per call whatever the outcome; only the three
\* read methods may issue more, and at most 3.
C6_WritesFetchOnce ==
  /\ caller \in WriteOperations \cup {"uploadImage"} => Fetches = 1
  /\ caller \in ApiOperations => Fetches \in 1..3
  /\ Fetches > 1 => caller \in {"getProperties", "getPropertyById", "getCategories"}

\* C6 witness: a write answered 503 (a retryable code) was rejected after its
\* single request.
C6_Witness ==
  /\ caller \in {"createProperty", "updateProperty", "deleteProperty", "uploadImage"}
  /\ pc = "rejected"
  /\ Get(result, "statusCode") = Num(503)
  /\ Fetches = 1

\* every fetch of the call was rejected (no response at all)
EveryFetchRejected ==
  /\ Settles # <<>>
  /\ \A i \in DOMAIN Settles : Settles[i].fetched.rejected

C8_MessageStringStatusNumber ==
  parsed # NotCalled =>
    /\ Get(parsed, "message").t = "string"
    /\ Get(parsed, "statusCode").t = "number"

\* what the four rules, in their order, give for a raw input
Normalized(v) ==
  IF {"message", "statusCode"} \subseteq FieldsOf(v) THEN v
  ELSE IF IsFetchFailure(v) THEN ApiErrorOf(NetworkMessage, 0)
  ELSE IF v.t = "object" /\ v.cls \in ErrorClasses
    THEN Obj("Object", [message |-> Get(v, "message"), statusCode |-> Num(500)])
  ELSE ApiErrorOf(UnexpectedMessage, 500)

\* C9: parseError returns the result of the first matching rule, in the
\* order (1) has message and statusCode: returned unchanged, (2) network-level
\* fetch failure: statusCode 0 and the network message, (3) other exception:
\* its message and statusCode 500, (4) anything else: the unexpected-error
\* message and statusCode 500; parseError is idempotent; handleError returns
\* what parseError returns.
C9_RulesInOrder ==
  /\ parsed # NotCalled => parsed = Normalized(raw)
  /\ reparsed # NotCalled => reparsed = parsed
  /\ handled # NotCalled => handled = Normalized(raw)
  /\ (handled # NotCalled /\ parsed # NotCalled) => handled = parsed

\* C9 witness: a fetch failure was normalized by rule (2), by parseError and
\* by handleError, and normalizing the result again changed nothing.
C9_Witness ==
  /\ raw = Obj("TypeError", [message |-> Str(FailedToFetch)])
  /\ parsed = ApiErrorOf(NetworkMessage, 0)
  /\ handled = parsed
  /\ reparsed = parsed

\* the message the claim gives the error of a non-success response
ClaimedMessage(fetched, fallback) ==
  IF fetched.body.parses /\ "message" \in FieldsOf(fetched.body.json)
    THEN Get(fetched.body.json, "message")
  ELSE IF fetched.statusText # "" THEN Str(fetched.statusText)
  ELSE Str(fallback)

\* the errors map of the body of a response (undefined when it has none)
BodyErrors(fetched) ==
  IF fetched.body.parses THEN Get(fetched.body.json, "errors") ELSE Undefined

\* C10 (as stated): for every non-success response the API client rejects
\* with an error whose statusCode is the HTTP status, whose message is the
\* body's message, else the status text, else a generic fallback, and whose
\* errors map is the body's; an unparseable body counts as empty.
C10_ErrorMirrorsResponse ==
  caller \in ApiOperations =>
    \A i \in DOMAIN Settles :
      LET fetched == Settles[i].fetched
          error == Settles[i].outcome.value
      IN (~fetched.rejected /\ ~ResponseOk(fetched.status)) =>
           /\ Settles[i].outcome.threw
           /\ Get(error, "statusCode") = Num(fetched.status)
           /\ Get(error, "message") =
                ClaimedMessage(fetched, IF caller = "uploadImage" THEN "Upload failed"
                                        ELSE "Request failed")
           /\ Get(error, "errors") = BodyErrors(fetched)
           /\ (i = Len(Settles) /\ Done) => (pc = "rejected" /\ result = error)

\* the filter field is present: neither null nor undefined
Present(f, k) == OptionalField(f, k) \notin {Undefined, Null}

\* the values the parameter k was appended with
ValuesOf(k) ==
  {query.params[i].value : i \in {j \in DOMAIN query.params : query.params[j].key = k}}

\* the decimal strings of the prices of the model
DecimalString(n) ==
  CASE n = 0 -> "0" [] n = 100000 -> "100000" [] n = 500000 -> "500000" [] n = -5 -> "-5"

\* what the claim has the parameter k carry
ClaimedValue(f, k) ==
  IF k \in {"priceMin", "priceMax"} THEN DecimalString(OptionalField(f, k).n)
  ELSE IF k = "active" THEN (IF OptionalField(f, k).b THEN "true" ELSE "false")
  ELSE OptionalField(f, k).s

\* C11 (as stated): the request URL of getProperties has a query parameter
\* for a filter field if and only if the field is present (neither null nor
\* undefined); prices appear as decimal strings and active as true or false;
\* with no field present the URL has no query string.
C11_ParamIffPresent ==
  query # NotCalled =>
    /\ \A k \in FilterFields :
         /\ (ValuesOf(k) # {}) <=> Present(filters, k)
         /\ Present(filters, k) => ValuesOf(k) = {ClaimedValue(filters, k)}
    /\ (\A k \in FilterFields : ~Present(filters, k)) =>
         query.endpoint = PropertiesEndpoint

\* the field is sent: present and, for the string fields, not empty
Sent(f, k) ==
  /\ Present(f, k)
  /\ k \in {"name", "address", "type"} => OptionalField(f, k) # Str("")

\* C11 (amended): a filter field has a query parameter if and only if it is
\* present and, for name, address and type, not the empty string; each such
\* parameter appears once, with the field's value (prices as decimal strings,
\* active as true or false, false included); the URL has a query string
\* exactly when some field is sent.
C11_ParamIffSent ==
  query # NotCalled =>
    /\ \A k \in FilterFields :
         /\ (ValuesOf(k) # {}) <=> Sent(filters, k)
         /\ Sent(filters, k) => ValuesOf(k) = {ClaimedValue(filters, k)}
    /\ Len(query.params) = Cardinality({k \in FilterFields : Sent(filters, k)})
    /\ (query.endpoint = PropertiesEndpoint) <=>
         (\A k \in FilterFields : ~Sent(filters, k))

\* C11 witness: the filter {priceMin: 100000, priceMax: 500000, type: "House",
\* active: false} was serialized, name and address left out.
C11_Witness ==
  /\ filters # Undefined
  /\ Get(filters, "name") = Undefined
  /\ Get(filters, "active") = Bool(FALSE)
  /\ query # NotCalled
  /\ query.endpoint = "/properties?priceMin=100000&priceMax=500000&type=House&active=false"

\* the payload the contract gives an operation: a list for the two list
\* operations, a record for the others
ContractPayload(op) ==
  IF op \in {"getProperties", "getCategories"} THEN Arr(<<Payload>>) ELSE Payload

\* the { data: ... } wrapper around a payload
Wrapped(p) == Obj("Object", [data |-> p, success |-> Bool(TRUE)])

UnwrappingOperations ==
  {"getProperties", "getPropertyById", "createProperty", "updateProperty",
   "getCategories"}

\* the response the call in hand ended with
LastFetched == Settles[Len(Settles)].fetched

\* C12: for getProperties, getPropertyById, createProperty, updateProperty
\* and getCategories, a successful response with the payload bare and one
\* with the payload inside { data: ... } both resolve with the payload; the
\* caller never receives a wrapper.
C12_UnwrapsTransparently ==
  (caller \in UnwrappingOperations /\ Done /\ ~LastFetched.rejected
     /\ ResponseOk(LastFetched.status) /\ LastFetched.body.parses) =>
    LET p == ContractPayload(caller)
    IN /\ LastFetched.body.json \in {p, Wrapped(p)} =>
            (pc = "resolved" /\ result = p)
       /\ pc = "resolved" => ~HasKey(result, "data")

\* C12 witness: createProperty resolved with the record although the server
\* sent it inside a wrapper.
C12_Witness ==
  /\ caller = "createProperty"
  /\ pc = "resolved"
  /\ LastFetched.body = Json(Wrapped(Payload))
  /\ result = Payload

\* C13 (as stated): deleteProperty resolves when the server answers the
\* DELETE with an empty body and status 204, and likewise with an empty body
\* and status 200.
C13_DeleteResolvesOnEmptyBody ==
  (caller = "deleteProperty" /\ Done /\ ~LastFetched.rejected
     /\ LastFetched.status \in {200, 204} /\ LastFetched.body = NotJson) =>
    pc = "resolved"

\* the debounce between two steps: one pending timer per quiet period, due
\* debounceMs after the effect last ran, and one reload once it has expired
DebounceOk ==
  mounted =>
    /\ reloads <= 1
    /\ debounceTimer.armed <=> reloads = 0
    /\ debounceTimer.armed => debounceTimer.remaining = debounceMs - elapsed
    /\ elapsed > debounceMs => reloads = 1

\* C14: in useProperties a filter change starts no load; a burst of changes,
\* each made before the timer of the previous one expired, is followed by
\* exactly one reload, started debounceMs after the last change, whose
\* getProperties call carries the final filter.
C14_DebouncedReload ==
  [][/\ SetFilter => loads' = loads
     /\ TimerFires =>
          /\ elapsed = debounceMs
          /\ \E l \in loads' :
               /\ l \notin loads
               /\ loads' = loads \cup {l}
               /\ l.args = LoadArgs(filter)
     /\ DebounceOk']_vars

\* C14 witness: two filter changes were made in one burst, the timer has
\* expired once, debounceMs after the second, and the reload in flight
\* carries the filter of the second change.
C14_Witness ==
  /\ component = "useProperties"
  /\ burst = 2
  /\ reloads = 1
  /\ elapsed = debounceMs
  /\ filter = Obj("Object", [name |-> Str("AB")])
  /\ \E l \in loads : l.source = "timer" /\ Get(l.args, "name") = Str("AB")

\* C15 (as stated): mount starts a load at once that requests properties and
\* categories in parallel; isLoading is true from mount until that load
\* settles; when both requests succeed, properties and categories are the two
\* results and isLoading becomes false.
C15_MountLoad ==
  [][/\ Mount =>
          \E l \in loads' : l.source = "mount" /\ l.getCategories /\ l \notin loads
     /\ (\E l \in loads' : l.source = "mount") => isLoading'
     /\ (step'.method = "loadData" /\ step'.arg = "mount" /\ ~step'.api.threw) =>
          /\ properties' = step'.api.value.propertiesData
          /\ categories' = step'.api.value.categoriesData
          /\ ~isLoading']_vars

\* C16: when the create call succeeds with record r, the list afterwards is r
\* followed by the previous list in its order, the success callback is
\* invoked, and r is returned to the caller.
C16_CreatePrepends ==
  [][(step'.method = "createProperty" /\ ~step'.api.threw) =>
       /\ Len(properties') = Len(properties) + 1
       /\ properties'[1] = step'.api.value
       /\ \A i \in DOMAIN properties : properties'[i + 1] = properties[i]
       /\ step'.callbacks = <<Callback("onSuccess", "Property created successfully")>>
       /\ step'.settled = Returned(step'.api.value)]_vars

\* C16 witness: a create succeeded on a list of two records; the new record
\* is first, the two follow, and the caller got the new record.
C16_Witness ==
  /\ step.method = "createProperty"
  /\ step.settled = Returned(Property("3", "Nueva"))
  /\ properties = <<Property("3", "Nueva"), Property("1", "Casa"), Property("2", "Loft")>>

\* the methods whose settlement a step records as a mutation
MutationMethods == {"createProperty", "updateProperty", "deleteProperty"}

\* C17: when the API call behind create, update or delete rejects with e, the
\* error callback is invoked with e, the method rejects with e, the list is
\* unchanged, and for create and update isSubmitting is false afterwards.
C17_MutationFailure ==
  [][(step'.method \in MutationMethods /\ step'.api.threw) =>
       /\ step'.callbacks = <<Callback("onError", step'.api.value)>>
       /\ step'.settled = Thrown(step'.api.value)
       /\ properties' = properties
       /\ step'.method \in {"createProperty", "updateProperty"} => ~isSubmitting']_vars

\* C17 witness: an update was rejected while the list held records; the
\* method rejected with the same error and isSubmitting is false.
C17_Witness ==
  /\ step.method = "updateProperty"
  /\ step.api = Thrown(ApiErrorOf("E1", 500))
  /\ step.settled = step.api
  /\ Len(properties) = 2
  /\ ~isSubmitting

\* C18: when update(id, input) succeeds with record u, every entry whose id
\* is id is replaced by u where it stands, every other entry is unchanged,
\* length and order are unchanged; with no such entry the list is unchanged.
C18_UpdateInPlace ==
  [][(step'.method = "updateProperty" /\ ~step'.api.threw) =>
       /\ Len(properties') = Len(properties)
       /\ \A i \in DOMAIN properties :
            properties'[i] = IF properties[i].id = step'.arg THEN step'.api.value
                             ELSE properties[i]
       /\ (\A i \in DOMAIN properties : properties[i].id # step'.arg) =>
            properties' = properties]_vars

\* C18 witness: an update of id 1 succeeded on a list that holds it second;
\* the first record is as it was and the second is the updated one.
C18_Witness ==
  /\ step.method = "updateProperty"
  /\ step.settled = Returned(Property("1", "Edited"))
  /\ properties = <<Property("3", "Nueva"), Property("1", "Edited")>>

\* the records with another id, in their order
OthersInOrder(list, id) ==
  LET NotIt(q) == q.id # id IN SelectSeq(list, NotIt)

\* C19 (as stated): when delete(id) is confirmed by the server, the list has
\* no record with that id and the other records keep their order; and if the
\* record with that id was the selected one, the selection is empty
\* afterwards.
C19_DeleteClearsSelection ==
  [][(MutationSettles /\ step'.method = "deleteProperty" /\ ~step'.api.threw) =>
       /\ \A i \in DOMAIN properties' : properties'[i].id # step'.arg
       /\ properties' = OthersInOrder(properties, step'.arg)
       /\ (selectedProperty # Null /\ selectedProperty.id = step'.arg) =>
            selectedProperty' = Null]_vars

\* C20: when a load fails, properties and categories keep their values, the
\* error callback is invoked once with the error, isLoading becomes false and
\* the promise of the load, refresh() included, resolves.
C20_LoadFailureKeepsData ==
  [][(step'.method = "loadData" /\ step'.api.threw) =>
       /\ properties' = properties
       /\ categories' = categories
       /\ step'.callbacks = <<Callback("onError", step'.api.value)>>
       /\ ~isLoading'
       /\ step'.settled = Returned(Undefined)]_vars

\* C20 witness: a refresh failed after an earlier load had filled the list
\* and the categories; both are still there and isLoading is false.
C20_Witness ==
  /\ component = "useProperties"
  /\ step.method = "loadData"
  /\ step.arg = "refresh"
  /\ step.api = Thrown(ApiErrorOf("E1", 500))
  /\ Len(properties) = 2
  /\ categories = <<"House">>
  /\ ~isLoading

\* C21 (as stated): once the hook holds a non-empty categories list, no load
\* started later calls getCategories, and no step changes the categories.
C21_CategoriesFetchedOnce ==
  [][Len(categories) > 0 =>
       /\ \A l \in loads' \ loads : ~l.getCategories
       /\ categories' = categories]_vars

\* when the toast with this id was added
AddedAt(id) ==
  LET i == CHOOSE k \in DOMAIN added : added[k].id = id IN added[i].at

\* no toast with a duration d > 0 is shown later than d ms after it was added
ShownInTime ==
  \A h \in ToastHooks : \A i \in DOMAIN toasts[h] :
    toasts[h][i].duration > 0 =>
      now <= AddedAt(toasts[h][i].id) + toasts[h][i].duration

\* the toast at position i of hook h is shown before the step and not after
Disappears(h, i) ==
  \A j \in DOMAIN toasts'[h] : toasts'[h][j].id # toasts[h][i].id

\* C22: a toast with duration d > 0 is not shown beyond d ms after it was
\* added, and the scheduled removal takes it away exactly then; a toast with
\* duration 0 goes away only by removeToast with its id; removeToast(id), and
\* a scheduled removal, take away the toast with that id and leave the others
\* of the hook in their order and every other hook as it is.
C22_ToastRemoval ==
  [][/\ ShownInTime'
     /\ lastToast'.op \in {"timeout", "removeToast"} =>
          /\ toasts'[lastToast'.hook] =
               OthersInOrder(toasts[lastToast'.hook], lastToast'.id)
          /\ \A g \in ToastHooks \ {lastToast'.hook} : toasts'[g] = toasts[g]
     /\ \A h \in ToastHooks : \A i \in DOMAIN toasts[h] :
          Disappears(h, i) =>
            /\ lastToast'.hook = h
            /\ lastToast'.id = toasts[h][i].id
            /\ IF lastToast'.op = "timeout"
                 THEN /\ toasts[h][i].duration > 0
                      /\ now = AddedAt(toasts[h][i].id) + toasts[h][i].duration
               ELSE lastToast'.op = "removeToast"]_vars

\* C22 witness: three toasts were added to one hook at time 0, with duration
\* 0, 3000 and the default; at 3000 the scheduled removal took the second
\* away and the other two are shown.
C22_Witness ==
  /\ lastToast.op = "timeout"
  /\ now = 3000
  /\ Len(added) = 3
  /\ \A i \in DOMAIN added : added[i].at = 0 /\ added[i].hook = lastToast.hook
  /\ Len(toasts[lastToast.hook]) = 2
  /\ toasts[lastToast.hook][1].duration = 0
  /\ toasts[lastToast.hook][2].duration = DefaultToastDuration
  /\ lastToast.id = added[2].id

\* the position of the toast with this id among the toasts ever added
AddedIndex(id) == CHOOSE k \in DOMAIN added : added[k].id = id

\* C23: the ids of all toasts ever added, by any hook, are pairwise distinct;
\* the id addToast returns is the id of the toast it stored, last in the
\* list; and each list shows its toasts in the order they were added.
C23_UniqueIdsInOrder ==
  /\ \A i, j \in DOMAIN added : added[i].id = added[j].id => i = j
  /\ lastToast.op = "addToast" =>
       /\ toasts[lastToast.hook] # <<>>
       /\ toasts[lastToast.hook][Len(toasts[lastToast.hook])].id = lastToast.id
       /\ added[Len(added)] = [hook |-> lastToast.hook, id |-> lastToast.id, at |-> now]
  /\ \A h \in ToastHooks : \A i, j \in DOMAIN toasts[h] :
       /\ \E k \in DOMAIN added :
            added[k].id = toasts[h][i].id /\ added[k].hook = h
       /\ i < j => AddedIndex(toasts[h][i].id) < AddedIndex(toasts[h][j].id)

\* C23 witness: hook a added a toast, then hook b, then hook a again; the
\* three ids differ, a shows its two in that order and the last add returned
\* the third id.
C23_Witness ==
  /\ lastToast = [op |-> "addToast", hook |-> "a", id |-> "toast-3"]
  /\ Len(toasts["a"]) = 2
  /\ toasts["a"][1].id = "toast-1"
  /\ toasts["a"][2].id = "toast-3"
  /\ Len(toasts["b"]) = 1
  /\ toasts["b"][1].id = "toast-2"

\* C24: a load that starts leaves the loads in flight as they are, and a load
\* that succeeds puts its result in properties whatever was issued or has
\* resolved before it, so after two overlapping loads the list is the result
\* of the one that resolved last.
C24_LastResponseWins ==
  [][/\ loads' \ loads # {} => loads \subseteq loads'
     /\ (step'.method = "loadData" /\ ~step'.api.threw) =>
          /\ properties' = step'.api.value.propertiesData
          /\ loads' \subseteq loads]_vars

\* C24 witness: on the page the name filter was changed to AB while the mount
\* load was pending, the debounced reload for AB was started and succeeded
\* (no error is shown), and the mount load, issued for the empty filter,
\* succeeded after it: properties is the mount load's result.
C24_Witness ==
  /\ component = "Home"
  /\ calls = 1
  /\ Get(filter, "name") = Str("AB")
  /\ burst = 1
  /\ reloads = 1
  /\ loads = {}
  /\ pageError = Null
  /\ step.method = "loadData"
  /\ step.arg = "mount"
  /\ ~step.api.threw
  /\ properties = step.api.value.propertiesData

\* the records of a list have pairwise distinct ids
DistinctIds(list) ==
  \A i, j \in DOMAIN list : list[i].id = list[j].id => i = j

\* C25 (as stated): the list never holds two records with one id. The case
\* checked is the one the claim names: one create is the only call made, the
\* list shown is a load response that resolved while that create was in
\* flight (the step before), and the create is then confirmed.
C25_NoDuplicateIds ==
  [][(/\ calls = 1
      /\ step.method = "loadData"
      /\ ~step.api.threw
      /\ DistinctIds(properties)
      /\ step'.method = "createProperty"
      /\ ~step'.api.threw) =>
       DistinctIds(properties')]_vars

\* C26 (as stated): a load that was in flight when a delete of id was
\* confirmed was issued before the confirmation; when such a load resolves,
\* here in the step after the confirmation, no record with that id is in the
\* list.
C26_StaleLoadKeepsDelete ==
  [][(/\ step.method = "deleteProperty"
      /\ step.api # NotCalled
      /\ ~step.api.threw
      /\ step'.method = "loadData"
      /\ ~step'.api.threw) =>
       \A i \in DOMAIN properties' : properties'[i].id # step.arg]_vars

\* the create and update calls in flight
Submitting == {m \in mutations : m.method \in {"createProperty", "updateProperty"}}

\* C27 (as stated): isSubmitting is true exactly while a create or update
\* call is in flight.
C27_SubmittingWhileInFlight == isSubmitting <=> Submitting # {}

\* the loads started have not all settled
Loading == loads # {}

\* C28 (as stated): once the controller is mounted, isLoading is true exactly
\* while a load is in flight.
C28_LoadingWhileInFlight == mounted => (isLoading <=> Loading)

\* C29 (as stated): a load is started only by mount, by the expiry of a timer
\* that a filter change armed, or by refresh(); so while no call has been made
\* after mount, no further load starts.
C29_LoadsOnlyOnDemand ==
  [][(mounted /\ calls' = 0) => loads' \subseteq loads]_vars

\* C30 (as stated): for every option set, when withRetry rejects, it rejects
\* with the error the last invocation of the operation threw, never with
\* null.
C30_RejectsWithLastError ==
  (caller = "withRetry" /\ pc = "rejected") =>
    /\ result # Null
    /\ Settles # <<>>
    /\ Settles[Len(Settles)].outcome = Thrown(result)

====
